---- MODULE Spec2Model ----
(***************************************************************************)
(* A model of SceneManager (Source/SceneManager.cpp): the texture          *)
(* registry, the material registry, the shader-uniform dispatcher and the  *)
(* PrepareScene / RenderScene orchestration.                               *)
(*                                                                         *)
(* Floats of the scene data are written in thousandths (0.325f is 325).    *)
(* The OpenGL context, the image files and the shader program are the      *)
(* environment; they are state of the model because the methods read and   *)
(* write them.                                                             *)
(***************************************************************************)
EXTENDS Integers, Sequences, FiniteSets, TLC

VARIABLES
  files,              \* image file -> channel count stbi_load yields, 0 = unreadable
  m_pShaderManager,   \* TRUE iff the constructor was given a non-NULL shader manager
  m_textureIDs,       \* the array of TEXTURE_INFO and the memory that follows it
  m_loadedTextures,   \* number of registered textures
  m_objectMaterials,  \* std::vector<OBJECT_MATERIAL>
  meshLoads,          \* mesh kind -> number of Load<Kind>Mesh calls so far
  glNames,            \* number of texture names glGenTextures has handed out
  glDeleted,          \* texture names released so far, in order of release
  glUnits,            \* texture unit -> name bound to its GL_TEXTURE_2D target
  glActive,           \* the active texture unit
  uniforms,           \* the shader program's uniforms
  frame,              \* calls issued by the most recent RenderScene
  prevFrame,          \* calls issued by the RenderScene before that
  lastCall,           \* the most recent public call, its arguments and result
  prevOp,             \* the name of the call before lastCall
  calls,              \* per-operation call counters (the model's bounds use them)
  loaded,             \* tags of the CreateGLTexture calls that returned true, in order
  lastColorOrTexture, \* the most recent call among SetShaderColor and SetShaderTexture
  crashed             \* the process ended in undefined behaviour

vars == << files, m_pShaderManager, m_textureIDs, m_loadedTextures,
           m_objectMaterials, meshLoads, glNames, glDeleted, glUnits, glActive,
           uniforms, frame, prevFrame, lastCall, prevOp, calls, loaded,
           lastColorOrTexture, crashed >>

(***************************************************************************)
(* Bounds of the model.                                                    *)
(***************************************************************************)
MaxDirectLoads == 2
MaxSceneLoads == 3
MaxPrepares == 2
MaxDestroys == 1
MaxDefines == 3
Overrun == 2

(***************************************************************************)
(* Program constants.                                                      *)
(***************************************************************************)
\* the size of m_textureIDs ("There are up to 16 slots")
MaxTextures == 16
\* m_loadedTextures is declared in SceneManager.h and the constructor does not
\* assign it; the count starts at zero, as the zero-based slots of the
\* specification require
InitialLoadedTextures == 0

TextureMemory == 0 .. (MaxTextures + Overrun - 1)

SceneFiles == << "green_apple.jpg", "apple_stem.jpg", "rusticwood.jpg",
                 "ceramic1.jpg", "white_cardboard.jpg" >>
SceneTextureTags == << "apple", "stem", "table", "ceramic", "cardboard" >>
FileNames == { SceneFiles[i] : i \in DOMAIN SceneFiles }
Channels == {0, 1, 3, 4}
DirectTags == {"apple", "extra"}
LookupTags == {"apple", "extra", "missing"}
MeshKinds == {"Box", "Plane", "Cylinder", "Cone", "Prism", "Pyramid4",
              "Sphere", "TaperedCylinder", "Torus"}

OutOfBoundsOutcomes == {"adjacent", "fault"}

(***************************************************************************)
(* The whole program state as one record, so that a method calling other   *)
(* methods is a composition of state transformers.                         *)
(***************************************************************************)
Cur ==
  [ files |-> files, sm |-> m_pShaderManager, tex |-> m_textureIDs,
    n |-> m_loadedTextures, mats |-> m_objectMaterials, meshes |-> meshLoads,
    names |-> glNames, deleted |-> glDeleted, units |-> glUnits,
    active |-> glActive, uni |-> uniforms, writes |-> << >>, log |-> frame,
    loaded |-> loaded, crashed |-> crashed ]

Becomes(s) ==
  /\ files' = s.files
  /\ m_pShaderManager' = s.sm
  /\ m_textureIDs' = s.tex
  /\ m_loadedTextures' = s.n
  /\ m_objectMaterials' = s.mats
  /\ meshLoads' = s.meshes
  /\ glNames' = s.names
  /\ glDeleted' = s.deleted
  /\ glUnits' = s.units
  /\ glActive' = s.active
  /\ uniforms' = s.uni
  /\ loaded' = s.loaded
  /\ crashed' = s.crashed

(***************************************************************************)
(* Texture registry.                                                       *)
(***************************************************************************)
\* lines 118-121 when m_loadedTextures is at or past the end of the array:
\* the write is out of bounds; either the process dies or the write lands in
\* the memory behind the array.
RegisterTexture(s, textureID, tag, oob) ==
  IF s.n < MaxTextures \/ oob = "adjacent"
  THEN [s EXCEPT !.tex[s.n] = [ID |-> textureID, tag |-> tag], !.n = s.n + 1]
  ELSE [s EXCEPT !.crashed = TRUE]

\* mutant: the channel test no longer returns before the registration
CreateGLTexture_RegistersBadChannels(s, filename, tag, oob) ==
  LET textureID == s.names + 1
      generated == [s EXCEPT !.names = textureID]
      registered == RegisterTexture(generated, textureID, tag, oob)
  IN  IF s.crashed \/ s.files[filename] = 0 THEN [st |-> s, ret |-> FALSE]
      ELSE [st |-> registered, ret |-> s.files[filename] \in {3, 4}]

CreateGLTexture(s, filename, tag, oob) ==
  LET colorChannels == s.files[filename]
      textureID == s.names + 1
      generated == [s EXCEPT !.names = textureID, !.units[s.active] = textureID]
      unbound == [generated EXCEPT !.units[s.active] = 0]
      registered == RegisterTexture(unbound, textureID, tag, oob)
  IN  IF s.crashed THEN [st |-> s, ret |-> FALSE]
      ELSE IF colorChannels # 0
      THEN IF colorChannels \notin {3, 4}
           THEN [st |-> generated, ret |-> FALSE]
           ELSE IF registered.crashed THEN [st |-> registered, ret |-> FALSE]
           ELSE [st |-> [registered EXCEPT !.loaded = Append(@, tag)],
                 ret |-> TRUE]
      ELSE [st |-> s, ret |-> FALSE]

\* mutant: glActiveTexture is given GL_TEXTURE0 in every round
RECURSIVE BindFrom_AlwaysUnitZero(_, _)
BindFrom_AlwaysUnitZero(s, i) ==
  IF i < s.n
  THEN BindFrom_AlwaysUnitZero(
         [s EXCEPT !.active = 0, !.units[0] = s.tex[i].ID], i + 1)
  ELSE s

RECURSIVE BindFrom(_, _)
BindFrom(s, i) ==
  IF i < s.n
  THEN BindFrom([s EXCEPT !.active = i, !.units[i] = s.tex[i].ID], i + 1)
  ELSE s

BindGLTextures(s) == IF s.crashed THEN s ELSE BindFrom(s, 0)

RECURSIVE DestroyFrom(_, _)
DestroyFrom(s, i) ==
  IF i < s.n
  THEN DestroyFrom([s EXCEPT !.names = s.names + 1, !.tex[i].ID = s.names + 1],
                   i + 1)
  ELSE s

DestroyGLTextures(s) == IF s.crashed THEN s ELSE DestroyFrom(s, 0)

RECURSIVE FindTextureIDFrom(_, _, _)
FindTextureIDFrom(s, tag, index) ==
  IF index < s.n
  THEN IF s.tex[index].tag = tag THEN s.tex[index].ID
       ELSE FindTextureIDFrom(s, tag, index + 1)
  ELSE -1

FindTextureID(s, tag) == FindTextureIDFrom(s, tag, 0)

\* mutant: textureSlot starts at 0 instead of -1
RECURSIVE FindTextureSlotFrom_DefaultZero(_, _, _)
FindTextureSlotFrom_DefaultZero(s, tag, index) ==
  IF index < s.n
  THEN IF s.tex[index].tag = tag THEN index
       ELSE FindTextureSlotFrom_DefaultZero(s, tag, index + 1)
  ELSE 0

RECURSIVE FindTextureSlotFrom(_, _, _)
FindTextureSlotFrom(s, tag, index) ==
  IF index < s.n
  THEN IF s.tex[index].tag = tag THEN index
       ELSE FindTextureSlotFrom(s, tag, index + 1)
  ELSE -1

FindTextureSlot(s, tag) == FindTextureSlotFrom(s, tag, 0)

(***************************************************************************)
(* Material registry.                                                      *)
(***************************************************************************)
OBJECT_MATERIAL(tag, ambientColor, ambientStrength, diffuseColor, specularColor, shininess) ==
  [ tag |-> tag, ambientColor |-> ambientColor,
    ambientStrength |-> ambientStrength, diffuseColor |-> diffuseColor,
    specularColor |-> specularColor, shininess |-> shininess ]

\* the five assignments of lines 234-238: the tag of the output is not written
CopyMaterial(material, entry) ==
  [ material EXCEPT !.ambientColor = entry.ambientColor,
                    !.ambientStrength = entry.ambientStrength,
                    !.diffuseColor = entry.diffuseColor,
                    !.specularColor = entry.specularColor,
                    !.shininess = entry.shininess ]

\* index counts from 0 as in the source; the sequence counts from 1
\* mutant: the scan does not stop at the first match
RECURSIVE FindMaterialFrom_LastMatch(_, _, _, _)
FindMaterialFrom_LastMatch(s, tag, material, index) ==
  IF index < Len(s.mats)
  THEN FindMaterialFrom_LastMatch(s, tag,
         IF s.mats[index + 1].tag = tag
         THEN CopyMaterial(material, s.mats[index + 1]) ELSE material,
         index + 1)
  ELSE material

RECURSIVE FindMaterialFrom(_, _, _, _)
FindMaterialFrom(s, tag, material, index) ==
  IF index < Len(s.mats)
  THEN IF s.mats[index + 1].tag = tag
       THEN CopyMaterial(material, s.mats[index + 1])
       ELSE FindMaterialFrom(s, tag, material, index + 1)
  ELSE material

FindMaterial(s, tag, material) ==
  IF Len(s.mats) = 0
  THEN [ret |-> FALSE, material |-> material]
  ELSE [ret |-> TRUE, material |-> FindMaterialFrom(s, tag, material, 0)]

goldMaterial ==
  OBJECT_MATERIAL("gold", <<200, 200, 100>>, 400, <<300, 300, 200>>,
                  <<600, 500, 400>>, 22000)
appleMaterial ==
  OBJECT_MATERIAL("appleskin", <<200, 200, 100>>, 200, <<300, 300, 200>>,
                  <<300, 300, 300>>, 5000)
cementMaterial ==
  OBJECT_MATERIAL("cement", <<200, 200, 200>>, 200, <<500, 500, 500>>,
                  <<400, 400, 400>>, 500)
woodMaterial ==
  OBJECT_MATERIAL("wood", <<200, 200, 200>>, 200, <<300, 300, 300>>,
                  <<400, 400, 400>>, 300)
polishwoodMaterial ==
  OBJECT_MATERIAL("polishWood", <<400, 300, 100>>, 200, <<300, 200, 100>>,
                  <<100, 100, 100>>, 11000)
tileMaterial ==
  OBJECT_MATERIAL("tile", <<200, 300, 400>>, 300, <<300, 200, 100>>,
                  <<400, 500, 600>>, 25000)
glassMaterial ==
  OBJECT_MATERIAL("glass", <<400, 400, 400>>, 300, <<300, 300, 300>>,
                  <<600, 600, 600>>, 85000)
clayMaterial ==
  OBJECT_MATERIAL("clay", <<200, 200, 300>>, 300, <<400, 400, 500>>,
                  <<200, 200, 400>>, 500)
polishclayMaterial ==
  OBJECT_MATERIAL("polishClay", <<400, 300, 100>>, 200, <<300, 200, 100>>,
                  <<100, 100, 100>>, 30000)

\* std::vector::push_back, as at line 436
DefineMaterial(s, material) ==
  IF s.crashed THEN s ELSE [s EXCEPT !.mats = Append(s.mats, material)]

\* mutant: the last material is registered under a misspelt tag
DefineObjectMaterials_MisspeltTag(s) ==
  IF s.crashed THEN s
  ELSE [s EXCEPT !.mats = s.mats \o
          << goldMaterial, appleMaterial, cementMaterial, woodMaterial,
             polishwoodMaterial, tileMaterial, glassMaterial, clayMaterial,
             [polishclayMaterial EXCEPT !.tag = "polishclay"] >>]

DefineObjectMaterials(s) ==
  IF s.crashed THEN s
  ELSE [s EXCEPT !.mats = s.mats \o
          << goldMaterial, appleMaterial, cementMaterial, woodMaterial,
             polishwoodMaterial, tileMaterial, glassMaterial, clayMaterial,
             polishclayMaterial >>]

ZeroMaterial == OBJECT_MATERIAL("", <<0, 0, 0>>, 0, <<0, 0, 0>>, <<0, 0, 0>>, 0)

\* the values the preceding SetShaderMaterial call pushed
StaleMaterial(s) ==
  OBJECT_MATERIAL("", s.uni["material.ambientColor"],
                  s.uni["material.ambientStrength"],
                  s.uni["material.diffuseColor"],
                  s.uni["material.specularColor"], s.uni["material.shininess"])

\* a default-constructed OBJECT_MATERIAL whose floats were never written
\* (line 359) holds whatever its stack slot held: zeros, or the values the
\* preceding call left in the same slot
Indeterminate(s) == {ZeroMaterial, StaleMaterial(s)}

(***************************************************************************)
(* Shader-uniform dispatcher.                                              *)
(***************************************************************************)
\* translation * rotationX * rotationY * rotationZ * scale, kept as the
\* product's factors
ModelView(scaleXYZ, XrotationDegrees, YrotationDegrees, ZrotationDegrees, positionXYZ) ==
  << <<"translate", positionXYZ>>, <<"rotateX", XrotationDegrees>>,
     <<"rotateY", YrotationDegrees>>, <<"rotateZ", ZrotationDegrees>>,
     <<"scale", scaleXYZ>> >>

\* a set<Type>Value call of the shader manager: the uniform takes the value
\* and the call is recorded
Push(s, name, value) ==
  [s EXCEPT !.uni[name] = value, !.writes = Append(@, <<name, value>>)]

\* mutant: the shader manager is used without the NULL test of line 281
SetTransformations_NoNullTest(s, scaleXYZ, XrotationDegrees, YrotationDegrees, ZrotationDegrees, positionXYZ) ==
  IF s.crashed THEN s
  ELSE IF ~s.sm THEN [s EXCEPT !.crashed = TRUE]
  ELSE Push(s, "model", ModelView(scaleXYZ, XrotationDegrees, YrotationDegrees,
                                  ZrotationDegrees, positionXYZ))

SetTransformations(s, scaleXYZ, XrotationDegrees, YrotationDegrees, ZrotationDegrees, positionXYZ) ==
  IF s.crashed \/ ~s.sm THEN s
  ELSE Push(s, "model", ModelView(scaleXYZ, XrotationDegrees, YrotationDegrees,
                                  ZrotationDegrees, positionXYZ))

\* mutant: the colour is pushed and the texture flag is left as it was
SetShaderColor_KeepsTextureFlag(s, redColorValue, greenColorValue, blueColorValue, alphaValue) ==
  IF s.crashed \/ ~s.sm THEN s
  ELSE Push(s, "objectColor",
            << redColorValue, greenColorValue, blueColorValue, alphaValue >>)

SetShaderColor(s, redColorValue, greenColorValue, blueColorValue, alphaValue) ==
  IF s.crashed \/ ~s.sm THEN s
  ELSE Push(Push(s, "bUseTexture", 0), "objectColor",
            << redColorValue, greenColorValue, blueColorValue, alphaValue >>)

\* mutant: an unresolved tag leaves the sampler as it was
SetShaderTexture_KeepsSampler(s, textureTag) ==
  IF s.crashed \/ ~s.sm THEN s
  ELSE IF FindTextureSlot(s, textureTag) = -1 THEN Push(s, "bUseTexture", 1)
  ELSE Push(Push(s, "bUseTexture", 1), "objectTexture",
            FindTextureSlot(s, textureTag))

SetShaderTexture(s, textureTag) ==
  IF s.crashed \/ ~s.sm THEN s
  ELSE Push(Push(s, "bUseTexture", 1), "objectTexture",
            FindTextureSlot(s, textureTag))

SetTextureUVScale(s, u, v) ==
  IF s.crashed \/ ~s.sm THEN s
  ELSE Push(s, "UVscale", <<u, v>>)

PushMaterial(s, material) ==
  Push(Push(Push(Push(Push(s,
    "material.ambientColor", material.ambientColor),
    "material.ambientStrength", material.ambientStrength),
    "material.diffuseColor", material.diffuseColor),
    "material.specularColor", material.specularColor),
    "material.shininess", material.shininess)

\* `material` is the local of line 359 as it is before FindMaterial runs.
\* m_pShaderManager is used without a NULL test: a NULL one ends the process.
SetShaderMaterial(s, materialTag, material) ==
  IF s.crashed THEN s
  ELSE IF Len(s.mats) > 0
  THEN LET found == FindMaterial(s, materialTag, material)
       IN  IF found.ret = TRUE
           THEN IF s.sm THEN PushMaterial(s, found.material)
                ELSE [s EXCEPT !.crashed = TRUE]
           ELSE s
  ELSE s

(***************************************************************************)
(* Scene preparation.                                                      *)
(***************************************************************************)
\* the five CreateGLTexture calls of lines 397-415 (their results are
\* assigned to bReturn and never read), then BindGLTextures
\* mutant: the first failed load ends the loading
RECURSIVE LoadSceneTexturesFrom_StopsAtFailure(_, _, _)
LoadSceneTexturesFrom_StopsAtFailure(s, i, oob) ==
  IF i <= Len(SceneFiles)
  THEN IF CreateGLTexture(s, SceneFiles[i], SceneTextureTags[i], oob).ret
       THEN LoadSceneTexturesFrom_StopsAtFailure(
              CreateGLTexture(s, SceneFiles[i], SceneTextureTags[i], oob).st,
              i + 1, oob)
       ELSE CreateGLTexture(s, SceneFiles[i], SceneTextureTags[i], oob).st
  ELSE s

RECURSIVE LoadSceneTexturesFrom(_, _, _)
LoadSceneTexturesFrom(s, i, oob) ==
  IF i <= Len(SceneFiles)
  THEN LoadSceneTexturesFrom(
         CreateGLTexture(s, SceneFiles[i], SceneTextureTags[i], oob).st,
         i + 1, oob)
  ELSE s

LoadSceneTextures(s, oob) == BindGLTextures(LoadSceneTexturesFrom(s, 1, oob))

LightSource(position, ambientColor, diffuseColor, specularColor, focalStrength, specularIntensity) ==
  [ position |-> position, ambientColor |-> ambientColor,
    diffuseColor |-> diffuseColor, specularColor |-> specularColor,
    focalStrength |-> focalStrength, specularIntensity |-> specularIntensity ]

SceneLights ==
  << LightSource(<<3000, 14000, 0>>, <<10, 10, 10>>, <<400, 400, 400>>,
                 <<100, 100, 100>>, 32000, 50),
     LightSource(<<-3000, 14000, 0>>, <<10, 10, 10>>, <<400, 400, 400>>,
                 <<0, 0, 0>>, 32000, 50),
     LightSource(<<600, 5000, 6000>>, <<10, 10, 10>>, <<300, 300, 300>>,
                 <<300, 300, 300>>, 12000, 500),
     LightSource(<<-600, 5000, 6000>>, <<10, 10, 10>>, <<300, 300, 300>>,
                 <<300, 300, 300>>, 12000, 500) >>

\* m_pShaderManager is used without a NULL test: a NULL one ends the process
SetupSceneLights(s) ==
  IF s.crashed THEN s
  ELSE IF ~s.sm THEN [s EXCEPT !.crashed = TRUE]
  ELSE Push(Push(Push(s, "bUseLighting", 1), "lightSources", SceneLights),
            "bUseLighting", 1)

LoadMeshes(s) ==
  IF s.crashed THEN s
  ELSE [s EXCEPT !.meshes = [k \in MeshKinds |-> s.meshes[k] + 1]]

PrepareScene(s, oob) ==
  LoadMeshes(SetupSceneLights(DefineObjectMaterials(LoadSceneTextures(s, oob))))

(***************************************************************************)
(* Rendering.  RenderSceneBody is the statement list of RenderScene, in    *)
(* source order.                                                           *)
(***************************************************************************)
CallSetTransformations(scaleXYZ, XrotationDegrees, YrotationDegrees, ZrotationDegrees, positionXYZ) ==
  [ call |-> "SetTransformations",
    args |-> << scaleXYZ, XrotationDegrees, YrotationDegrees, ZrotationDegrees,
                positionXYZ >> ]
CallSetShaderColor(r, g, b, a) == [call |-> "SetShaderColor", args |-> <<r, g, b, a>>]
CallSetShaderMaterial(tag) == [call |-> "SetShaderMaterial", args |-> <<tag>>]
CallSetShaderTexture(tag) == [call |-> "SetShaderTexture", args |-> <<tag>>]
CallDraw(mesh) == [call |-> "Draw", args |-> <<mesh>>]

RenderSceneBody ==
  << \* table plane
     CallSetTransformations(<<20000, 0, 10000>>, 0, 0, 0, <<0, 1500, 0>>),
     CallSetShaderColor(900, 800, 700, 1000),
     CallSetShaderMaterial("polishWood"),
     CallSetShaderTexture("table"),
     CallDraw("Plane"),
     \* apple
     CallSetTransformations(<<1000, 1100, 1000>>, 0, 0, -1000, <<0, 2500, 0>>),
     CallSetShaderMaterial("appleskin"),
     CallSetShaderTexture("apple"),
     CallDraw("Sphere"),
     \* stem
     CallSetTransformations(<<100, 1000, 100>>, 0, 0, -15000, <<0, 3000, 0>>),
     CallSetShaderMaterial("wood"),
     CallSetShaderTexture("stem"),
     CallDraw("Cylinder"),
     \* container
     CallSetTransformations(<<1500, 2000, 1500>>, 0, 0, 0, <<2500, 1500, 0>>),
     CallSetShaderMaterial("polishClay"),
     CallSetShaderTexture("ceramic"),
     CallDraw("Cylinder"),
     \* lid
     CallSetTransformations(<<500, 325, 500>>, 0, 0, 0, <<2500, 3850, 0>>),
     CallSetShaderMaterial("polishClay"),
     CallSetShaderTexture("ceramic"),
     CallDraw("Sphere"),
     \* lid2
     CallSetTransformations(<<1250, 1250, 1250>>, 90000, 0, 0, <<2500, 3450, 0>>),
     CallSetShaderMaterial("polishClay"),
     CallSetShaderTexture("ceramic"),
     CallDraw("Torus"),
     \* lid3
     CallSetTransformations(<<1250, 250, 1250>>, 0, 0, 0, <<2500, 3450, 0>>),
     CallSetShaderMaterial("polishClay"),
     CallSetShaderTexture("ceramic"),
     CallDraw("Cylinder"),
     \* box1
     CallSetTransformations(<<4000, 3000, 3000>>, 0, -30000, 0, <<2500, 3000, -3500>>),
     CallSetShaderColor(1000, 1000, 1000, 1000),
     CallSetShaderMaterial("wood"),
     CallSetShaderTexture("cardboard"),
     CallDraw("Box"),
     \* box2
     CallSetTransformations(<<2500, 3250, 500>>, 0, 25000, 0, <<-350, 3250, -1500>>),
     CallSetShaderColor(1000, 1000, 1000, 1000),
     CallSetShaderMaterial("wood"),
     CallSetShaderTexture("cardboard"),
     CallDraw("Box"),
     \* teacup
     CallSetTransformations(<<1500, 1500, 1500>>, 180000, 0, 0, <<2500, 6000, -3500>>),
     CallSetShaderColor(1000, 1000, 1000, 1000),
     CallSetShaderMaterial("polishClay"),
     CallSetShaderTexture("ceramic"),
     CallDraw("TaperedCylinder"),
     \* teacup handle
     CallSetTransformations(<<500, 500, 500>>, 0, 0, 0, <<3500, 5250, -3500>>),
     CallSetShaderColor(1000, 1000, 1000, 1000),
     CallSetShaderMaterial("polishClay"),
     CallSetShaderTexture("ceramic"),
     CallDraw("Torus") >>

\* one statement of RenderScene; `material` is what the local of
\* SetShaderMaterial holds before it is written
Execute(s, stmt, material) ==
  CASE stmt.call = "SetTransformations" ->
         SetTransformations(s, stmt.args[1], stmt.args[2], stmt.args[3],
                            stmt.args[4], stmt.args[5])
    [] stmt.call = "SetShaderColor" ->
         SetShaderColor(s, stmt.args[1], stmt.args[2], stmt.args[3], stmt.args[4])
    [] stmt.call = "SetShaderMaterial" ->
         SetShaderMaterial(s, stmt.args[1], material)
    [] stmt.call = "SetShaderTexture" -> SetShaderTexture(s, stmt.args[1])
    [] OTHER -> s

\* what the draw call consumes
DrawState(uni) ==
  [ name \in {"model", "objectColor", "bUseTexture", "objectTexture", "UVscale",
              "material.ambientColor", "material.ambientStrength",
              "material.diffuseColor", "material.specularColor",
              "material.shininess"} |-> uni[name] ]

\* runs body[i..]; every executed statement is appended to the frame's log
\* with the uniform writes it made, a draw with the uniforms it consumes
RECURSIVE Run(_, _, _, _)
Run(s, body, i, material) ==
  IF i > Len(body) \/ s.crashed THEN s
  ELSE LET after == Execute([s EXCEPT !.writes = << >>], body[i], material)
           event == [ stmt |-> body[i], writes |-> after.writes,
                      uni |-> IF body[i].call = "Draw" THEN DrawState(after.uni)
                              ELSE << >>,
                      died |-> after.crashed ]
       IN  Run([after EXCEPT !.log = Append(@, event),
                             !.writes = s.writes \o after.writes],
               body, i + 1, material)

\* mutant: the apple is drawn before its texture is set
RenderScene_DrawsBeforeTexture(s, material) ==
  Run([s EXCEPT !.log = << >>],
      [i \in DOMAIN RenderSceneBody |->
         CASE RenderSceneBody[i] = CallSetShaderTexture("apple") -> RenderSceneBody[i + 1]
           [] i > 1 /\ RenderSceneBody[i - 1] = CallSetShaderTexture("apple") -> RenderSceneBody[i - 1]
           [] OTHER -> RenderSceneBody[i]],
      1, material)

RenderScene(s, material) == Run([s EXCEPT !.log = << >>], RenderSceneBody, 1, material)

(***************************************************************************)
(* The state after construction (lines 34-38).  The OpenGL context is new: *)
(* no texture name exists, unit 0 is active, every uniform is zero.        *)
(***************************************************************************)
UniformNames ==
  {"model", "objectColor", "objectTexture", "bUseTexture", "bUseLighting",
   "UVscale", "material.ambientColor", "material.ambientStrength",
   "material.diffuseColor", "material.specularColor", "material.shininess",
   "lightSources"}

ZeroUniform(name) ==
  CASE name \in {"model", "lightSources"} -> << >>
    [] name = "objectColor" -> <<0, 0, 0, 0>>
    [] name = "UVscale" -> <<0, 0>>
    [] name \in {"material.ambientColor", "material.diffuseColor",
                 "material.specularColor"} -> <<0, 0, 0>>
    [] OTHER -> 0

\* the image files on disk: each scene image unreadable (0), gray-scale (1)
\* or RGB (3), and two file systems that hold an RGBA image (4)
AllReadable ==
  [f \in FileNames |-> IF f = "ceramic1.jpg" THEN 4 ELSE 3]
SomeUnreadable ==
  [f \in FileNames |-> CASE f = "green_apple.jpg" -> 0
                         [] f = "apple_stem.jpg" -> 1
                         [] f = "ceramic1.jpg" -> 4
                         [] OTHER -> 3]

FileSystems == [FileNames -> Channels \ {4}] \cup {AllReadable, SomeUnreadable}

NoCall ==
  [ op |-> "constructor", tag |-> "", args |-> << >>, ch |-> 0, ret |-> TRUE,
    before |-> 0,
    writes |-> << >>, out |-> ZeroMaterial ]

Init ==
  /\ files \in FileSystems
  /\ m_pShaderManager \in BOOLEAN
  /\ m_textureIDs = [i \in TextureMemory |-> [ID |-> 0, tag |-> ""]]
  /\ m_loadedTextures = InitialLoadedTextures
  /\ m_objectMaterials = << >>
  /\ meshLoads = [k \in MeshKinds |-> 0]
  /\ glNames = 0
  /\ glDeleted = << >>
  /\ glUnits = [i \in TextureMemory |-> 0]
  /\ glActive = 0
  /\ uniforms = [name \in UniformNames |-> ZeroUniform(name)]
  /\ frame = << >>
  /\ prevFrame = << >>
  /\ lastCall = NoCall
  /\ prevOp = "none"
  /\ calls = [direct |-> 0, scene |-> 0, prepare |-> 0, destroy |-> 0,
              define |-> 0]
  /\ loaded = << >>
  /\ lastColorOrTexture = "none"
  /\ crashed = FALSE

\* the registry-level specifications start from two of the file systems
InitRegistry == Init /\ files \in {AllReadable, SomeUnreadable}

(***************************************************************************)
(* One action per call.                                                    *)
(***************************************************************************)
\* the calls a public call issues: itself, and for RenderScene the statements
\* of its frame
Issued(op, s) ==
  IF op = "RenderScene" THEN [k \in DOMAIN s.log |-> s.log[k].stmt.call]
  ELSE << op >>

ColorOrTextureCalls(issued) ==
  { k \in DOMAIN issued : issued[k] \in {"SetShaderColor", "SetShaderTexture"} }

LastColorOrTexture(op, s) ==
  IF ColorOrTextureCalls(Issued(op, s)) = {} THEN lastColorOrTexture
  ELSE Issued(op, s)[CHOOSE k \in ColorOrTextureCalls(Issued(op, s)) :
                       \A j \in ColorOrTextureCalls(Issued(op, s)) : j <= k]

CalledWith(op, tag, ch, ret, s, out) ==
  /\ lastCall' = [ op |-> op, tag |-> tag, args |-> << >>, ch |-> ch,
                   ret |-> ret, before |-> m_loadedTextures,
                   writes |-> s.writes, out |-> out ]
  /\ prevOp' = lastCall.op
  /\ lastColorOrTexture' = LastColorOrTexture(op, s)

Called(op, tag, ch, ret, s) == CalledWith(op, tag, ch, ret, s, ZeroMaterial)

\* a call that takes numbers and no tag
CalledOn(op, args, s) ==
  /\ lastCall' = [ op |-> op, tag |-> "", args |-> args, ch |-> 0, ret |-> TRUE,
                   before |-> m_loadedTextures, writes |-> s.writes,
                   out |-> ZeroMaterial ]
  /\ prevOp' = lastCall.op
  /\ lastColorOrTexture' = LastColorOrTexture(op, s)

CreateGLTextureCall ==
  \E filename \in FileNames, tag \in DirectTags, oob \in OutOfBoundsOutcomes :
    /\ ~crashed
    /\ calls.direct < MaxDirectLoads
    /\ m_loadedTextures < MaxTextures + Overrun
    /\ LET r == CreateGLTexture(Cur, filename, tag, oob)
       IN  /\ Becomes(r.st)
           /\ Called("CreateGLTexture", tag, files[filename], r.ret, r.st)
    /\ calls' = [calls EXCEPT !.direct = @ + 1]
    /\ UNCHANGED << frame, prevFrame >>

LoadSceneTexturesCall ==
  \E oob \in OutOfBoundsOutcomes :
    /\ ~crashed
    /\ calls.scene < MaxSceneLoads
    /\ m_loadedTextures + Len(SceneFiles) <= MaxTextures + Overrun
    /\ LET s == LoadSceneTextures(Cur, oob)
       IN  Becomes(s) /\ Called("LoadSceneTextures", "", 0, TRUE, s)
    /\ calls' = [calls EXCEPT !.scene = @ + 1]
    /\ UNCHANGED << frame, prevFrame >>

BindGLTexturesCall ==
  /\ ~crashed
  /\ LET s == BindGLTextures(Cur)
     IN  Becomes(s) /\ Called("BindGLTextures", "", 0, TRUE, s)
  /\ UNCHANGED << frame, prevFrame, calls >>

DestroyGLTexturesCall ==
  /\ ~crashed
  /\ calls.destroy < MaxDestroys
  /\ LET s == DestroyGLTextures(Cur)
     IN  Becomes(s) /\ Called("DestroyGLTextures", "", 0, TRUE, s)
  /\ calls' = [calls EXCEPT !.destroy = @ + 1]
  /\ UNCHANGED << frame, prevFrame >>

SetShaderTextureCall ==
  \E textureTag \in LookupTags :
    /\ ~crashed
    /\ LET s == SetShaderTexture(Cur, textureTag)
       IN  Becomes(s) /\ Called("SetShaderTexture", textureTag, 0, TRUE, s)
    /\ UNCHANGED << frame, prevFrame, calls >>

NextTextures ==
  \/ CreateGLTextureCall
  \/ LoadSceneTexturesCall
  \/ SetShaderTextureCall

SpecTextures == InitRegistry /\ [][NextTextures]_vars

NextTeardown ==
  \/ CreateGLTextureCall
  \/ BindGLTexturesCall
  \/ DestroyGLTexturesCall

SpecTeardown == InitRegistry /\ [][NextTeardown]_vars

\* the inputs of the material registry: two tags, and two materials that
\* share the tag "wood" and differ in shininess
MaterialInputs ==
  { woodMaterial, goldMaterial,
    [woodMaterial EXCEPT !.shininess = goldMaterial.shininess] }
MaterialTags == {"wood", "gold", "nonexistent"}

DefineMaterialCall ==
  \E material \in MaterialInputs :
    /\ ~crashed
    /\ calls.define < MaxDefines
    /\ LET s == DefineMaterial(Cur, material)
       IN  Becomes(s) /\ Called("DefineMaterial", material.tag, 0, TRUE, s)
    /\ calls' = [calls EXCEPT !.define = @ + 1]
    /\ UNCHANGED << frame, prevFrame >>

\* the caller hands in a material it has zeroed
FindMaterialCall ==
  \E tag \in MaterialTags :
    /\ ~crashed
    /\ LET found == FindMaterial(Cur, tag, ZeroMaterial)
       IN  /\ Becomes(Cur)
           /\ CalledWith("FindMaterial", tag, 0, found.ret, Cur, found.material)
    /\ UNCHANGED << frame, prevFrame, calls >>

SetShaderMaterialCall ==
  \E materialTag \in MaterialTags, material \in Indeterminate(Cur) :
    /\ ~crashed
    /\ LET s == SetShaderMaterial(Cur, materialTag, material)
       IN  Becomes(s) /\ Called("SetShaderMaterial", materialTag, 0, TRUE, s)
    /\ UNCHANGED << frame, prevFrame, calls >>

NextMaterials ==
  \/ DefineMaterialCall
  \/ FindMaterialCall
  \/ SetShaderMaterialCall

SpecMaterials == InitRegistry /\ [][NextMaterials]_vars

PrepareSceneCall ==
  \E oob \in OutOfBoundsOutcomes :
    /\ ~crashed
    /\ calls.prepare < MaxPrepares
    /\ m_loadedTextures + Len(SceneFiles) <= MaxTextures + Overrun
    /\ LET s == PrepareScene(Cur, oob)
       IN  Becomes(s) /\ Called("PrepareScene", "", 0, TRUE, s)
    /\ calls' = [calls EXCEPT !.prepare = @ + 1]
    /\ UNCHANGED << frame, prevFrame >>

RenderSceneCall ==
  \E material \in Indeterminate(Cur) :
    /\ ~crashed
    /\ LET s == RenderScene(Cur, material)
       IN  /\ Becomes(s)
           /\ Called("RenderScene", "", 0, TRUE, s)
           /\ frame' = s.log
    /\ prevFrame' = frame
    /\ UNCHANGED calls

NextScene ==
  \/ PrepareSceneCall
  \/ RenderSceneCall

SpecScene == Init /\ [][NextScene]_vars

\* the dispatcher calls on their own, before and after PrepareScene; the
\* transforms and colours are those of the first two objects of the scene
TransformInputs ==
  { RenderSceneBody[k].args : k \in {1, 6} }
ColorInputs == { RenderSceneBody[2].args }
UVScaleInputs == { <<1000, 1000>>, <<2000, 500>> }

SetTransformationsCall ==
  \E args \in TransformInputs :
    /\ ~crashed
    /\ LET s == SetTransformations(Cur, args[1], args[2], args[3], args[4], args[5])
       IN  Becomes(s) /\ CalledOn("SetTransformations", args, s)
    /\ UNCHANGED << frame, prevFrame, calls >>

SetShaderColorCall ==
  \E args \in ColorInputs :
    /\ ~crashed
    /\ LET s == SetShaderColor(Cur, args[1], args[2], args[3], args[4])
       IN  Becomes(s) /\ CalledOn("SetShaderColor", args, s)
    /\ UNCHANGED << frame, prevFrame, calls >>

SetTextureUVScaleCall ==
  \E args \in UVScaleInputs :
    /\ ~crashed
    /\ LET s == SetTextureUVScale(Cur, args[1], args[2])
       IN  Becomes(s) /\ CalledOn("SetTextureUVScale", args, s)
    /\ UNCHANGED << frame, prevFrame, calls >>

NextDispatcher ==
  \/ PrepareSceneCall
  \/ SetTransformationsCall
  \/ SetShaderColorCall
  \/ SetShaderTextureCall
  \/ SetTextureUVScaleCall
  \/ SetShaderMaterialCall

SpecDispatcher == InitRegistry /\ [][NextDispatcher]_vars

(***************************************************************************)
(* Properties.                                                             *)
(***************************************************************************)
AllTextureTags == LookupTags \cup { SceneTextureTags[i] : i \in DOMAIN SceneTextureTags }

Registered == 0 .. (m_loadedTextures - 1)

TagRegistered(tag) == \E i \in Registered : m_textureIDs[i].tag = tag

\* zero-based position of the first successful load of `tag`, -1 if none
FirstLoad(tag) ==
  IF \E p \in DOMAIN loaded : loaded[p] = tag
  THEN (CHOOSE p \in DOMAIN loaded :
          loaded[p] = tag /\ \A q \in 1 .. (p - 1) : loaded[q] # tag) - 1
  ELSE -1

\* C1: after any sequence of successful CreateGLTexture calls,
\* FindTextureSlot(tag) is the zero-based position of the tag's first load
\* among the successful loads, every successful load has an entry of its own
\* (slot = position, so the slots are pairwise distinct), and every slot
\* lies in [0,16).
C1_SlotsFollowLoadOrder ==
  /\ \A tag \in AllTextureTags : FindTextureSlot(Cur, tag) = FirstLoad(tag)
  /\ m_loadedTextures = Len(loaded)
  /\ \A p \in DOMAIN loaded : m_textureIDs[p - 1].tag = loaded[p]
  /\ \A i \in Registered : i \in 0 .. (MaxTextures - 1)

\* C4: a CreateGLTexture call whose image decodes (3 or 4 channels) while 16
\* textures are registered returns false, leaves the count at 16 and writes
\* no entry, neither behind the array nor over one of the 16.
C4_SeventeenthLoadIsRefused ==
  [][ ( /\ lastCall'.op = "CreateGLTexture"
        /\ lastCall'.ch \in {3, 4}
        /\ m_loadedTextures = MaxTextures )
      => ( /\ ~crashed'
           /\ lastCall'.ret = FALSE
           /\ m_loadedTextures' = MaxTextures
           /\ m_textureIDs' = m_textureIDs ) ]_vars

HeldNames == { m_textureIDs[i].ID : i \in Registered }

\* C5: DestroyGLTextures releases every texture name the registry holds
\* exactly once, generates no name, and empties the registry, so that every
\* lookup afterwards yields -1.
C5_DestroyReleasesEveryHandle ==
  [][ lastCall'.op = "DestroyGLTextures"
      => ( /\ Len(glDeleted') = Len(glDeleted) + Cardinality(HeldNames)
           /\ { glDeleted'[k] : k \in (Len(glDeleted) + 1) .. Len(glDeleted') }
                = HeldNames
           /\ glNames' = glNames
           /\ m_loadedTextures' = 0
           /\ \A tag \in AllTextureTags :
                FindTextureSlot(Cur', tag) = -1 /\ FindTextureID(Cur', tag) = -1 )
    ]_vars

\* C6: a CreateGLTexture call that fails (file unreadable, or a channel count
\* other than 3 and 4) returns false and leaves the count and every entry of
\* the registry as they were; the lookups of its tag yield what they yielded
\* before, which is -1 unless an earlier successful load registered the tag.
C6_FailedLoadLeavesRegistry ==
  [][ ( /\ lastCall'.op = "CreateGLTexture"
        /\ lastCall'.ch \notin {3, 4} )
      => ( /\ lastCall'.ret = FALSE
           /\ ~crashed'
           /\ m_loadedTextures' = m_loadedTextures
           /\ m_textureIDs' = m_textureIDs
           /\ loaded' = loaded
           /\ FindTextureSlot(Cur', lastCall'.tag) = FirstLoad(lastCall'.tag)
           /\ FindTextureID(Cur', lastCall'.tag) = FindTextureID(Cur, lastCall'.tag)
           /\ ( FirstLoad(lastCall'.tag) = -1
                => FindTextureID(Cur', lastCall'.tag) = -1 ) ) ]_vars

\* a load failed on its channel count, after other textures were registered
\* and before its own tag ever was
C6_Witness ==
  /\ lastCall.op = "CreateGLTexture"
  /\ lastCall.ch = 1
  /\ lastCall.ret = FALSE
  /\ m_loadedTextures > 0
  /\ ~TagRegistered(lastCall.tag)

\* C7: with a shader manager attached, SetShaderTexture(tag) for a tag that no
\* registered entry carries turns bUseTexture on and pushes -1 as
\* objectTexture: those two writes and no other, whatever slot an earlier
\* call pushed and whatever other tags are registered.
C7_MissingTextureTagPushesMinusOne ==
  ( /\ lastCall.op = "SetShaderTexture"
    /\ m_pShaderManager
    /\ ~TagRegistered(lastCall.tag) )
  => ( /\ lastCall.writes = << <<"bUseTexture", 1>>, <<"objectTexture", -1>> >>
       /\ uniforms["bUseTexture"] = 1
       /\ uniforms["objectTexture"] = -1 )

\* two SetShaderTexture calls in a row, the second for an unregistered tag
\* while other tags are registered
C7_Witness ==
  /\ lastCall.op = "SetShaderTexture"
  /\ prevOp = "SetShaderTexture"
  /\ m_pShaderManager
  /\ m_loadedTextures > 0
  /\ ~TagRegistered(lastCall.tag)

MaterialIndexes(tag) == { i \in DOMAIN m_objectMaterials : m_objectMaterials[i].tag = tag }

FirstDefined(tag) ==
  CHOOSE i \in MaterialIndexes(tag) : \A j \in MaterialIndexes(tag) : i <= j

MaterialWrites(material) ==
  << <<"material.ambientColor", material.ambientColor>>,
     <<"material.ambientStrength", material.ambientStrength>>,
     <<"material.diffuseColor", material.diffuseColor>>,
     <<"material.specularColor", material.specularColor>>,
     <<"material.shininess", material.shininess>> >>

\* C2: FindMaterial(tag) on a non-empty registry without an entry of that tag
\* returns false and leaves the output material as the caller passed it.
C2_UnknownMaterialIsNotFound ==
  ( /\ lastCall.op = "FindMaterial"
    /\ Len(m_objectMaterials) > 0
    /\ MaterialIndexes(lastCall.tag) = {} )
  => ( lastCall.ret = FALSE /\ lastCall.out = ZeroMaterial )

\* C3: with a shader manager attached, SetShaderMaterial(tag) writes no
\* material.* uniform when no entry has the tag, and otherwise writes the
\* five uniforms with the values of an entry that has the tag.
C3_UnknownMaterialIsNotPushed ==
  ( lastCall.op = "SetShaderMaterial" /\ m_pShaderManager )
  => IF MaterialIndexes(lastCall.tag) = {}
     THEN lastCall.writes = << >>
     ELSE \E i \in MaterialIndexes(lastCall.tag) :
            lastCall.writes = MaterialWrites(m_objectMaterials[i])

\* C8: FindMaterial(tag), when entries with that tag exist, returns true and
\* the five properties of the earliest-defined of them.
C8_FirstDefinedMaterialWins ==
  ( lastCall.op = "FindMaterial" /\ MaterialIndexes(lastCall.tag) # {} )
  => ( /\ lastCall.ret = TRUE
       /\ lastCall.out =
            CopyMaterial(ZeroMaterial, m_objectMaterials[FirstDefined(lastCall.tag)]) )

\* a lookup of a tag that two entries of different shininess carry
C8_Witness ==
  /\ lastCall.op = "FindMaterial"
  /\ \E i, j \in MaterialIndexes(lastCall.tag) :
       m_objectMaterials[i].shininess # m_objectMaterials[j].shininess

DrawIndexes(log) == { k \in DOMAIN log : log[k].stmt.call = "Draw" }

\* index of the draw before position k, 0 if there is none
PreviousDraw(log, k) ==
  LET earlier == { j \in DrawIndexes(log) : j < k }
  IN  IF earlier = {} THEN 0
      ELSE CHOOSE j \in earlier : \A i \in earlier : i <= j

\* the calls between the draw before position k and position k
CallsBefore(log, k) ==
  [ j \in 1 .. (k - 1 - PreviousDraw(log, k)) |-> log[PreviousDraw(log, k) + j].stmt ]

CallNames(stmts) == [ j \in DOMAIN stmts |-> stmts[j].call ]

\* C9: in the calls RenderScene issues, the calls between one draw and the
\* next (or the start of the frame and the first draw) are exactly
\* SetTransformations, optionally SetShaderColor, SetShaderMaterial,
\* SetShaderTexture, in that order; a frame that ran to its end has issued
\* every statement and ended with a draw; and, with a shader manager
\* attached, the draw consumes the model matrix of that SetTransformations,
\* the sampler and flag of that SetShaderTexture and, when the material tag is
\* defined, the material of that SetShaderMaterial.
C9_StateIsPushedBeforeEachDraw ==
  /\ \A k \in DrawIndexes(frame) :
       LET setup == CallsBefore(frame, k)
           n == Len(setup)
       IN  /\ CallNames(setup) \in
                { << "SetTransformations", "SetShaderMaterial", "SetShaderTexture" >>,
                  << "SetTransformations", "SetShaderColor", "SetShaderMaterial",
                     "SetShaderTexture" >> }
           /\ ( lastCall.op = "RenderScene" /\ m_pShaderManager )
              => ( /\ frame[k].uni["model"] =
                        ModelView(setup[1].args[1], setup[1].args[2], setup[1].args[3],
                                  setup[1].args[4], setup[1].args[5])
                   /\ frame[k].uni["bUseTexture"] = 1
                   /\ frame[k].uni["objectTexture"] = FindTextureSlot(Cur, setup[n].args[1])
                   /\ MaterialIndexes(setup[n - 1].args[1]) # {}
                      => frame[k].uni["material.shininess"] =
                           m_objectMaterials[FirstDefined(setup[n - 1].args[1])].shininess )
  /\ ( lastCall.op = "RenderScene" /\ ~crashed )
     => ( /\ Len(frame) = Len(RenderSceneBody)
          /\ frame[Len(frame)].stmt.call = "Draw"
          /\ \A k \in DOMAIN frame : frame[k].stmt = RenderSceneBody[k] )

\* a whole frame drawn after PrepareScene with a shader manager attached
C9_Witness ==
  /\ lastCall.op = "RenderScene"
  /\ m_pShaderManager
  /\ calls.prepare > 0
  /\ Cardinality(DrawIndexes(frame)) > 1
  /\ \E k \in DOMAIN frame : frame[k].stmt.call = "SetShaderColor"

\* the arguments of the last `call` before position k, << >> if there is none
LastBefore(log, k, call) ==
  LET earlier == { j \in 1 .. (k - 1) : log[j].stmt.call = call }
  IN  IF earlier = {} THEN << >>
      ELSE log[CHOOSE j \in earlier : \A i \in earlier : i <= j].stmt.args

\* per draw, in order: material tag, texture tag, mesh kind, the parameters
\* of the model transform, and the sampler the draw consumes
RECURSIVE DrawsFrom(_, _)
DrawsFrom(log, k) ==
  IF k > Len(log) THEN << >>
  ELSE IF log[k].stmt.call = "Draw"
  THEN << [ material |-> LastBefore(log, k, "SetShaderMaterial"),
            texture |-> LastBefore(log, k, "SetShaderTexture"),
            mesh |-> log[k].stmt.args,
            transform |-> LastBefore(log, k, "SetTransformations"),
            sampler |-> log[k].uni["objectTexture"] ] >> \o DrawsFrom(log, k + 1)
  ELSE DrawsFrom(log, k + 1)

IsDraw(stmt) == stmt.call = "Draw"

MeshOrder(draws) == [ j \in DOMAIN draws |-> draws[j].mesh ]

\* C10: when PrepareScene has run and the last two calls were both
\* RenderScene, the two frames issued the same sequence of (material tag,
\* texture tag, mesh kind, transform parameters, sampler) per draw, and the
\* meshes are drawn in the order of the statement list.
C10_ConsecutiveFramesAreEqual ==
  ( lastCall.op = "RenderScene" /\ prevOp = "RenderScene" /\ calls.prepare > 0 )
  => ( /\ DrawsFrom(frame, 1) = DrawsFrom(prevFrame, 1)
       /\ MeshOrder(DrawsFrom(frame, 1)) =
            [ j \in DOMAIN SelectSeq(RenderSceneBody, IsDraw) |->
                SelectSeq(RenderSceneBody, IsDraw)[j].args ] )

\* two frames in a row after a PrepareScene in which the first texture used
\* failed to load and another loaded
C10_Witness ==
  /\ lastCall.op = "RenderScene"
  /\ prevOp = "RenderScene"
  /\ calls.prepare > 0
  /\ \E d \in DOMAIN DrawsFrom(frame, 1) : DrawsFrom(frame, 1)[d].sampler = -1
  /\ \E d \in DOMAIN DrawsFrom(frame, 1) : DrawsFrom(frame, 1)[d].sampler > 0

LoadedMeshes == { k \in MeshKinds : meshLoads[k] > 0 }

\* C11: a PrepareScene call made after an earlier PrepareScene leaves the
\* texture registry (count and entries), the material registry (count and
\* entries) and the set of loaded meshes as the earlier call left them, and
\* no PrepareScene call leaves more than 16 textures registered.
C11_PrepareSceneIsIdempotent ==
  [][ lastCall'.op = "PrepareScene"
      => ( /\ m_loadedTextures' <= MaxTextures
           /\ calls.prepare > 0
              => ( /\ m_loadedTextures' = m_loadedTextures
                   /\ m_textureIDs' = m_textureIDs
                   /\ m_objectMaterials' = m_objectMaterials
                   /\ { k \in MeshKinds : meshLoads'[k] > 0 } = LoadedMeshes ) )
    ]_vars

\* the image file LoadSceneTextures loads under `tag`
SceneFileOf(tag) ==
  SceneFiles[CHOOSE i \in DOMAIN SceneTextureTags : SceneTextureTags[i] = tag]

\* stbi_load decodes the file and its channel count is one CreateGLTexture takes
LoadSucceeds(tag) == files[SceneFileOf(tag)] \in {3, 4}

\* C12: whichever of the five loads of PrepareScene failed, a RenderScene
\* after it runs to its end and issues its eleven draws in the order of the
\* statement list; a draw whose texture tag failed to load consumes sampler
\* -1, and every other draw consumes the slot that holds an entry of its own
\* tag, with that entry's texture bound to the texture unit of that number.
C12_FailedLoadsDegradeOnlyTheirObjects ==
  ( lastCall.op = "RenderScene" /\ calls.prepare > 0 )
  => ( /\ ~crashed
       /\ Len(DrawsFrom(frame, 1)) = Len(SelectSeq(RenderSceneBody, IsDraw))
       /\ \A d \in DOMAIN DrawsFrom(frame, 1) :
            LET draw == DrawsFrom(frame, 1)[d]
            IN  /\ draw.mesh = SelectSeq(RenderSceneBody, IsDraw)[d].args
                /\ IF LoadSucceeds(draw.texture[1])
                   THEN /\ draw.sampler \in Registered
                        /\ m_textureIDs[draw.sampler].tag = draw.texture[1]
                        /\ m_textureIDs[draw.sampler].ID > 0
                        /\ glUnits[draw.sampler] = m_textureIDs[draw.sampler].ID
                   ELSE draw.sampler = -1 )

\* a frame drawn after a PrepareScene in which the first image was unreadable,
\* the second had a channel count the loader refuses, and the last loaded
C12_Witness ==
  /\ lastCall.op = "RenderScene"
  /\ calls.prepare > 0
  /\ files["green_apple.jpg"] = 0
  /\ files["apple_stem.jpg"] = 1
  /\ LoadSucceeds("cardboard")
  /\ Len(frame) = Len(RenderSceneBody)

\* everything of the program but the uniforms of the shader program
RegistriesAndContext ==
  << m_pShaderManager, m_textureIDs, m_loadedTextures, m_objectMaterials,
     meshLoads, glNames, glDeleted, glUnits, glActive, crashed >>

\* C13, as stated: SetTransformations is pure; it writes no uniform and
\* changes no program state.
C13_SetTransformationsIsPure ==
  [][ lastCall'.op = "SetTransformations"
      => ( /\ lastCall'.writes = << >>
           /\ uniforms' = uniforms
           /\ RegistriesAndContext' = RegistriesAndContext ) ]_vars

\* translation * rotationX * rotationY * rotationZ * scale of the arguments
\* << scaleXYZ, XrotationDegrees, YrotationDegrees, ZrotationDegrees,
\* positionXYZ >>
ProductOf(args) ==
  << <<"translate", args[5]>>, <<"rotateX", args[2]>>, <<"rotateY", args[3]>>,
     <<"rotateZ", args[4]>>, <<"scale", args[1]>> >>

\* C13, amended: SetTransformations, with a shader manager attached, makes one
\* uniform write, of the product translation * rotationX * rotationY *
\* rotationZ * scale of its arguments to `model`, and changes nothing else;
\* with no shader manager it changes nothing at all.
C13_SetTransformationsWritesOnlyModel ==
  [][ lastCall'.op = "SetTransformations"
      => ( /\ RegistriesAndContext' = RegistriesAndContext
           /\ IF m_pShaderManager
              THEN /\ lastCall'.writes = << <<"model", ProductOf(lastCall'.args)>> >>
                   /\ uniforms' = [uniforms EXCEPT !["model"] = ProductOf(lastCall'.args)]
              ELSE /\ lastCall'.writes = << >>
                   /\ uniforms' = uniforms ) ]_vars

\* SetTransformations replaced the model matrix of an earlier call while the
\* texture flag, the sampler and the scene's lights were set
C13_Witness ==
  /\ lastCall.op = "SetTransformations"
  /\ prevOp = "SetShaderTexture"
  /\ m_pShaderManager
  /\ uniforms["model"] = ProductOf(lastCall.args)
  /\ uniforms["bUseTexture"] = 1
  /\ uniforms["objectTexture"] >= 0
  /\ uniforms["lightSources"] # << >>
  /\ calls.prepare > 0

\* C14: with a shader manager attached, bUseTexture is on exactly when the
\* most recent call among SetShaderColor and SetShaderTexture was
\* SetShaderTexture (off when neither was ever called), and a call of
\* SetTransformations, SetTextureUVScale or SetShaderMaterial leaves it as it
\* was.
C14_TextureFlagFollowsLastColorOrTexture ==
  /\ [] ( m_pShaderManager
          => /\ uniforms["bUseTexture"] \in {0, 1}
             /\ uniforms["bUseTexture"] = 1 <=> lastColorOrTexture = "SetShaderTexture" )
  /\ [][ ( /\ m_pShaderManager
           /\ lastCall'.op \in {"SetTransformations", "SetTextureUVScale",
                                "SetShaderMaterial"} )
         => uniforms'["bUseTexture"] = uniforms["bUseTexture"] ]_vars

\* SetShaderColor turned the flag off after a SetShaderTexture of an
\* unregistered tag had turned it on, and SetShaderMaterial ran since
C14_Witness ==
  /\ m_pShaderManager
  /\ lastCall.op = "SetShaderMaterial"
  /\ lastCall.writes # << >>
  /\ lastColorOrTexture = "SetShaderColor"
  /\ uniforms["objectTexture"] = -1
  /\ uniforms["bUseTexture"] = 0

\* C15: right after BindGLTextures, for every tag that FindTextureSlot
\* resolves to a slot s >= 0, entry s carries the tag, the texture bound to
\* texture unit s is the one FindTextureID yields for the tag, and, with a
\* shader manager attached, s is the sampler SetShaderTexture(tag) pushes.
C15_SlotLookupAndBindingAgree ==
  lastCall.op = "BindGLTextures"
  => \A tag \in AllTextureTags :
       FindTextureSlot(Cur, tag) >= 0
       => ( /\ m_textureIDs[FindTextureSlot(Cur, tag)].tag = tag
            /\ FindTextureID(Cur, tag) > 0
            /\ glUnits[FindTextureSlot(Cur, tag)] = FindTextureID(Cur, tag)
            /\ m_pShaderManager
               => glUnits[SetShaderTexture(Cur, tag).uni["objectTexture"]]
                    = FindTextureID(Cur, tag) )

\* BindGLTextures ran with two textures registered under the same tag
C15_Witness ==
  /\ lastCall.op = "BindGLTextures"
  /\ m_pShaderManager
  /\ m_loadedTextures = 2
  /\ m_textureIDs[0].tag = m_textureIDs[1].tag
  /\ m_textureIDs[0].ID # m_textureIDs[1].ID
  /\ glUnits[1] = m_textureIDs[1].ID

AllLoadsSucceed == \A f \in FileNames : files[f] \in {3, 4}

\* C16: in a RenderScene after a PrepareScene whose five loads all succeeded,
\* every draw is reached, and at each draw bUseTexture is on, the sampler is a
\* slot in 0..4 whose entry carries the object's texture tag, and the five
\* material uniforms are those of a registered material that carries the
\* object's material tag.
C16_SceneTagsResolve ==
  ( lastCall.op = "RenderScene" /\ calls.prepare > 0 /\ AllLoadsSucceed )
  => ( /\ ~crashed
       /\ Len(frame) = Len(RenderSceneBody)
       /\ \A k \in DrawIndexes(frame) :
            /\ frame[k].uni["bUseTexture"] = 1
            /\ frame[k].uni["objectTexture"] \in 0 .. (Len(SceneFiles) - 1)
            /\ m_textureIDs[frame[k].uni["objectTexture"]].tag
                 = LastBefore(frame, k, "SetShaderTexture")[1]
            /\ \E i \in MaterialIndexes(LastBefore(frame, k, "SetShaderMaterial")[1]) :
                 /\ frame[k].uni["material.ambientColor"] = m_objectMaterials[i].ambientColor
                 /\ frame[k].uni["material.ambientStrength"] = m_objectMaterials[i].ambientStrength
                 /\ frame[k].uni["material.diffuseColor"] = m_objectMaterials[i].diffuseColor
                 /\ frame[k].uni["material.specularColor"] = m_objectMaterials[i].specularColor
                 /\ frame[k].uni["material.shininess"] = m_objectMaterials[i].shininess )

\* the first frame after a single PrepareScene that loaded four RGB images
\* and one RGBA image
C16_Witness ==
  /\ lastCall.op = "RenderScene"
  /\ prevOp = "PrepareScene"
  /\ calls.prepare = 1
  /\ files = AllReadable
  /\ m_loadedTextures = Len(SceneFiles)
  /\ Cardinality(DrawIndexes(frame)) = Len(SelectSeq(RenderSceneBody, IsDraw))

====
